---- MODULE Spec2Model ----
(***************************************************************************)
(* Verification model of squareword_gen_rs (src/main.rs): the trie, the    *)
(* lazy constrained word enumerator WordsFromValidCharsIter, and the       *)
(* program around them.                                                     *)
(*                                                                          *)
(* A string is a sequence of one-character strings; a trie node is named   *)
(* by the path of characters from the root, so the root is <<>> and the    *)
(* child of node p for character c is Append(p, c).  The trie itself is a  *)
(* function from the paths of the nodes that exist to their is_last flag.  *)
(* An Option is a sequence of length 0 (None) or 1 (Some).                 *)
(***************************************************************************)
EXTENDS Integers, Sequences, FiniteSets, TLC

VARIABLES
    pc,             \* position of the program
    trie,           \* Trie: node path -> is_last
    inserted,       \* history: the words add_word was called with
    word_len,       \* the configured square dimension (Args.word_len)
    row_iter,       \* the top-level WordsFromValidCharsIter (Option)
    start_node,     \* history: node the top-level iterator was created at
    out,            \* history: strings the top-level next() has returned
    last_ret,       \* the last return of next(): "some", "none", "panic";
                    \* "new" before the first call
    extra,          \* history: calls of next() made after it returned None
    working_words,  \* the filtered vocabulary
    square,         \* the partial square: the rows placed so far
    row_iters,      \* the enumerators of the rows being searched, row 0 first
    squares,        \* the squares emitted so far
    freq_csv_file,  \* lines of the frequency file (Args.freq_csv_file)
    scrabble_words_file,    \* lines of the dictionary file
    top_n,          \* Args.top_n
    start_idx       \* gen_first_row: index of start_word in working_words

vars == <<pc, trie, inserted, word_len, row_iter, start_node, out,
          last_ret, extra, working_words, square, row_iters, squares,
          freq_csv_file, scrabble_words_file, top_n, start_idx>>

enumVars == <<row_iter, start_node, out, last_ret, extra>>
squareVars == <<working_words, square, row_iters, squares>>
mainVars == <<freq_csv_file, scrabble_words_file, top_n, start_idx>>

----------------------------------------------------------------------------
(* Bounds of the model *)

Range(s) == {s[i] : i \in 1..Len(s)}

\* Evaluation helper: the one element of a singleton set.
The(S) == CHOOSE x \in S : TRUE

\* The alphabet in use, in ascending order.
AlphabetSeq == <<"a", "b">>
Alphabet == Range(AlphabetSeq)
MaxWordLen == 2
MaxWords == 2
MaxCons == 2
MaxExtraCalls == 1

RECURSIVE StringsOfLen(_)
StringsOfLen(n) ==
    IF n = 0 THEN {<<>>}
    ELSE {Append(s, c) : s \in StringsOfLen(n - 1), c \in Alphabet}

StringsUpTo(n) == UNION {StringsOfLen(k) : k \in 0..n}

\* A constraint entry: characters in a declared order, none repeated.
CharLists == {s \in StringsUpTo(Cardinality(Alphabet)) :
                 \A i, j \in 1..Len(s) : i # j => s[i] # s[j]}

RECURSIVE ConsListsOfLen(_)
ConsListsOfLen(n) ==
    IF n = 0 THEN {<<>>}
    ELSE {Append(l, e) : l \in ConsListsOfLen(n - 1), e \in CharLists}

ConsLists == UNION {ConsListsOfLen(k) : k \in 0..MaxCons}

----------------------------------------------------------------------------
(* Trie *)

\* Trie::new: a root that is a default TrieNode.
TrieNew == [p \in {<<>>} |-> FALSE]

\* Mutant of EntryOrDefault: a created child starts out terminal.
EntryOrDefault_Last(t, p) ==
    IF p \in DOMAIN t THEN t
    ELSE t @@ (p :> TRUE)

\* Mutant of EntryOrDefault: a child that exists already is marked terminal
\* on the way through it.
EntryOrDefault_MarkExisting(t, p) ==
    IF p \in DOMAIN t THEN [t EXCEPT ![p] = TRUE]
    ELSE t @@ (p :> FALSE)

\* node.children.entry(c).or_default(): the child is created, not last,
\* when it is missing; an existing child is left as it is.
EntryOrDefault(t, p) ==
    IF p \in DOMAIN t THEN t
    ELSE t @@ (p :> FALSE)

RECURSIVE add_word_from(_, _, _)
add_word_from(t, node, rest) ==
    IF rest = <<>>
    THEN [t EXCEPT ![node] = TRUE]
    ELSE The({add_word_from(child, Append(node, Head(rest)), Tail(rest)) :
                 child \in {EntryOrDefault(t, Append(node, Head(rest)))}})

add_word(t, word) == add_word_from(t, <<>>, word)

RECURSIVE add_words(_, _)
add_words(t, words) ==
    IF words = <<>> THEN t
    ELSE The({add_words(added, Tail(words)) :
                 added \in {add_word(t, Head(words))}})

\* node.children.get(&c)
HasChild(t, node, c) == Append(node, c) \in DOMAIN t

----------------------------------------------------------------------------
(* WordsFromValidCharsIter *)

None == <<>>
Some(x) == <<x>>

IterNew(word_trie_node, prefix_char, valid_next_row_chars) ==
    [word_trie_node |-> word_trie_node,
     prefix_char |-> prefix_char,
     valid_next_row_chars |-> valid_next_row_chars,
     string_iter |-> None,
     done |-> FALSE]

\* Mutant of CharsToTry: every child of the node is tried, whatever the
\* constraint entry allows.
CharsToTry_AllChildren(t, self) ==
    SelectSeq(AlphabetSeq, LAMBDA c : HasChild(t, self.word_trie_node, c))

\* Mutant of CharsToTry: the allowed children are tried in alphabetical
\* order, not in the order of the entry.
CharsToTry_Alphabetical(t, self) ==
    SelectSeq(AlphabetSeq,
              LAMBDA c : /\ c \in Range(self.valid_next_row_chars[1])
                         /\ HasChild(t, self.word_trie_node, c))

\* The characters of valid_next_row_chars[0] the node has a child for, in
\* the order of the entry.
CharsToTry(t, self) ==
    SelectSeq(self.valid_next_row_chars[1],
              LAMBDA c : HasChild(t, self.word_trie_node, c))

\* Mutant of make_child_iters: the children get the whole constraint list,
\* not the slice [1..].
make_child_iters_NoSlice(t, self) ==
    LET chars == CharsToTry(t, self)
        child_iters ==
            [i \in 1..Len(chars) |->
                IterNew(Append(self.word_trie_node, chars[i]), <<chars[i]>>,
                        self.valid_next_row_chars)]
    IN  [self EXCEPT !.string_iter =
            Some([iter |-> child_iters, frontiter |-> None])]

\* Mutant of make_child_iters: every child that has constraint entries left
\* gets its own child list at once.
make_child_iters_Eager(t, self) ==
    LET chars == CharsToTry(t, self)
        fresh(node, c, cons) == IterNew(Append(node, c), <<c>>, cons)
        grandchildren(child) ==
            LET cs == CharsToTry(t, child)
            IN  [j \in 1..Len(cs) |->
                    fresh(child.word_trie_node, cs[j],
                          Tail(child.valid_next_row_chars))]
        expanded(child) ==
            IF child.valid_next_row_chars = <<>> THEN child
            ELSE [child EXCEPT !.string_iter =
                     Some([iter |-> grandchildren(child), frontiter |-> None])]
        child_iters ==
            [i \in 1..Len(chars) |->
                expanded(fresh(self.word_trie_node, chars[i],
                               Tail(self.valid_next_row_chars)))]
    IN  [self EXCEPT !.string_iter =
            Some([iter |-> child_iters, frontiter |-> None])]

\* child_iters.into_iter().flatten(): the iterators not yet started and the
\* one being drained.
make_child_iters(t, self) ==
    LET chars == CharsToTry(t, self)
        child_iters ==
            [i \in 1..Len(chars) |->
                IterNew(Append(self.word_trie_node, chars[i]), <<chars[i]>>,
                        Tail(self.valid_next_row_chars))]
    IN  [self EXCEPT !.string_iter =
            Some([iter |-> child_iters, frontiter |-> None])]

\* valid_next_row_chars[0] on an empty slice panics (index out of bounds).
MakePanics(self) == self.valid_next_row_chars = <<>>

Ret(self, kind, val) == [self |-> self, kind |-> kind, val |-> val]

\* Mutant of IsLastReturn: done is not set.
IsLastReturn_NotDone(self) == Ret(self, "some", self.prefix_char)

\* The is_last branch of next().
IsLastReturn(self) ==
    Ret([self EXCEPT !.done = TRUE], "some", self.prefix_char)

RECURSIVE IterNext(_, _), FlattenNext(_, _)

\* Mutant of FrontReturned: the Flatten ends when the first child iterator
\* ends, without moving on to the next one.
FrontReturned_StopAtFirst(t, fl, r) ==
    CASE r.kind = "some" ->
           Ret([fl EXCEPT !.frontiter = Some(r.self)], "some", r.val)
      [] r.kind = "panic" -> Ret(fl, "panic", <<>>)
      [] OTHER -> Ret([iter |-> <<>>, frontiter |-> None], "none", <<>>)

\* Flatten::next once the iterator being drained has returned r.
FrontReturned(t, fl, r) ==
    CASE r.kind = "some" ->
           Ret([fl EXCEPT !.frontiter = Some(r.self)], "some", r.val)
      [] r.kind = "panic" -> Ret(fl, "panic", <<>>)
      [] OTHER -> FlattenNext(t, [fl EXCEPT !.frontiter = None])

\* Flatten::next over the child iterators; fl is the Flatten's state.
FlattenNext(t, fl) ==
    IF fl.frontiter # None
    THEN The({FrontReturned(t, fl, r) : r \in {IterNext(t, fl.frontiter[1])}})
    ELSE IF fl.iter # <<>>
         THEN FlattenNext(t, [iter |-> Tail(fl.iter),
                              frontiter |-> Some(Head(fl.iter))])
         ELSE Ret(fl, "none", <<>>)

\* Mutant of ChildrenReturned: at the end of the children the child list is
\* dropped and done is not set.
ChildrenReturned_Reset(self, r) ==
    CASE r.kind = "some" ->
           Ret([self EXCEPT !.string_iter = Some(r.self)], "some",
               self.prefix_char \o r.val)
      [] r.kind = "panic" ->
           Ret([self EXCEPT !.string_iter = Some(r.self)], "panic", <<>>)
      [] OTHER -> Ret([self EXCEPT !.string_iter = None], "none", <<>>)

\* The match on string_iter.next() at the end of next().
ChildrenReturned(self, r) ==
    CASE r.kind = "some" ->
           Ret([self EXCEPT !.string_iter = Some(r.self)], "some",
               self.prefix_char \o r.val)
      [] r.kind = "panic" ->
           Ret([self EXCEPT !.string_iter = Some(r.self)], "panic", <<>>)
      [] OTHER ->
           Ret([self EXCEPT !.string_iter = Some(r.self), !.done = TRUE],
               "none", <<>>)

\* WordsFromValidCharsIter::next
IterNext(t, self) ==
    IF self.done
    THEN Ret(self, "none", <<>>)
    ELSE IF t[self.word_trie_node]
    THEN IsLastReturn(self)
    ELSE IF self.string_iter = None /\ MakePanics(self)
    THEN Ret(self, "panic", <<>>)
    ELSE The({The({ChildrenReturned(made, r) :
                      r \in {FlattenNext(t, made.string_iter[1])}}) :
                 made \in {IF self.string_iter = None
                           THEN make_child_iters(t, self) ELSE self}})

----------------------------------------------------------------------------
(* The trie and one enumerator, driven with every input *)

Init ==
    /\ pc = "build"
    /\ trie = TrieNew
    /\ inserted = {}
    /\ word_len = MaxWordLen
    /\ row_iter = None
    /\ start_node = <<>>
    /\ out = <<>>
    /\ last_ret = "new"
    /\ extra = 0
    /\ working_words = <<>>
    /\ square = <<>>
    /\ row_iters = <<>>
    /\ squares = <<>>
    /\ freq_csv_file = <<>>
    /\ scrabble_words_file = <<>>
    /\ top_n = 0
    /\ start_idx = 0

\* trie.add_word(word)
AddWord(word) ==
    /\ pc = "build"
    /\ Cardinality(inserted \cup {word}) <= MaxWords
    /\ trie' = add_word(trie, word)
    /\ inserted' = inserted \cup {word}
    /\ UNCHANGED <<pc, word_len, enumVars, squareVars, mainVars>>

\* WordsFromValidCharsIter::new(node, "".to_string(), &constraints)
NewIter(node, constraints) ==
    /\ pc = "build"
    /\ pc' = "iter"
    /\ row_iter' = Some(IterNew(node, <<>>, constraints))
    /\ start_node' = node
    /\ UNCHANGED <<trie, inserted, word_len, out, last_ret, extra,
                   squareVars, mainVars>>

\* row_iter.next()
CallNext ==
    /\ pc = "iter"
    /\ row_iter[1].done => extra < MaxExtraCalls
    /\ \E r \in {IterNext(trie, row_iter[1])} :
           /\ row_iter' = Some(r.self)
           /\ last_ret' = r.kind
           /\ out' = IF r.kind = "some" THEN Append(out, r.val) ELSE out
           /\ pc' = IF r.kind = "panic" THEN "panicked" ELSE "iter"
           /\ extra' = IF row_iter[1].done THEN extra + 1 ELSE extra
    /\ UNCHANGED <<trie, inserted, word_len, start_node, squareVars,
                   mainVars>>

\* Some word is added to the trie.
AddSomeWord ==
    /\ pc = "build"
    /\ \E word \in StringsUpTo(MaxWordLen) : AddWord(word)

\* An enumerator is created at some node with some constraint list.
NewSomeIter ==
    /\ pc = "build"
    /\ \E node \in DOMAIN trie, constraints \in ConsLists :
          NewIter(node, constraints)

Next ==
    \/ AddSomeWord
    \/ NewSomeIter
    \/ CallNext

Spec == Init /\ [][Next]_vars

----------------------------------------------------------------------------
(* Properties of the enumerator *)

\* The constraint list the top-level iterator was created with.
Constraints == row_iter[1].valid_next_row_chars

Count(x, s) == Cardinality({i \in 1..Len(s) : s[i] = x})

IsTerminal(p) == p \in DOMAIN trie /\ trie[p]

\* The words the enumeration is asked for: one character per constraint
\* entry, each a member of its entry, spelling a path from the start node to
\* a terminal node.
MatchingWords ==
    {w \in StringsOfLen(Len(Constraints)) :
        /\ IsTerminal(start_node \o w)
        /\ \A k \in 1..Len(w) : w[k] \in Range(Constraints[k])}

Exhausted == pc = "iter" /\ row_iter[1].done /\ last_ret = "none"

\* C1: every string next() has returned spells a path from the start node to
\* a terminal node, and its k-th character is a member of the k-th
\* constraint entry.
C1_EnumeratorSound ==
    pc \in {"iter", "panicked"} =>
        \A i \in 1..Len(out) :
            /\ IsTerminal(start_node \o out[i])
            /\ Len(out[i]) <= Len(Constraints)
            /\ \A k \in 1..Len(out[i]) : out[i][k] \in Range(Constraints[k])

\* C1 witness: a string of two characters has been returned while the node
\* it starts at has a child the first constraint entry does not allow.
C1_Witness ==
    /\ pc = "iter"
    /\ \E i \in 1..Len(out) : Len(out[i]) = 2
    /\ \E c \in Alphabet :
          /\ HasChild(trie, start_node, c)
          /\ c \notin Range(Constraints[1])

\* C2: once the enumerator is drained, every matching word has been returned
\* exactly once.
C2_EnumeratorComplete ==
    Exhausted => \A w \in MatchingWords : Count(w, out) = 1

\* C4: with an empty constraint list the first next() returns the empty
\* string when the node is terminal and end-of-sequence otherwise; it does
\* not fail.
C4_ZeroPositions ==
    /\ pc # "panicked"
    /\ (pc = "iter" /\ Constraints = <<>> /\ last_ret # "new") =>
          out = IF IsTerminal(start_node) THEN << <<>> >> ELSE <<>>

\* C5: every string returned has exactly as many characters as the
\* constraint list has entries.
C5_LengthIsL ==
    pc \in {"iter", "panicked"} =>
        \A i \in 1..Len(out) : Len(out[i]) = Len(Constraints)

\* C9: next() never fails before it returns end-of-sequence, and it returns
\* at most as many strings as words were inserted into the trie.
C9_FiniteAndBounded ==
    /\ pc # "panicked"
    /\ Len(out) <= Cardinality(inserted)

----------------------------------------------------------------------------
(* Order of the enumeration *)

\* The position of character c in the constraint entry e.
Pos(e, c) == CHOOSE i \in 1..Len(e) : e[i] = c

Min(a, b) == IF a <= b THEN a ELSE b

\* x comes before y in the order the constraint entries declare: at the
\* first position where they differ, x has the character declared earlier.
Precedes(x, y) ==
    \E k \in 1..Min(Len(x), Len(y)) :
        /\ \A m \in 1..(k - 1) : x[m] = y[m]
        /\ x[k] # y[k]
        /\ Pos(Constraints[k], x[k]) < Pos(Constraints[k], y[k])

\* Some enumeration of the set S.
RECURSIVE SetToSeq(_)
SetToSeq(S) ==
    IF S = {} THEN <<>>
    ELSE LET x == CHOOSE y \in S : TRUE IN <<x>> \o SetToSeq(S \ {x})

\* The strings a drained enumeration returns, as a set: the allowed paths
\* from the start node to the first terminal node on them.
StopWords ==
    {w \in StringsUpTo(Len(Constraints)) :
        /\ IsTerminal(start_node \o w)
        /\ \A k \in 0..(Len(w) - 1) :
              ~IsTerminal(start_node \o SubSeq(w, 1, k))
        /\ \A k \in 1..Len(w) : w[k] \in Range(Constraints[k])}

\* C14: the strings are returned in the lexicographic order the constraint
\* entries declare, and the sequence is fixed by the constraint list and the
\* set of inserted words: the trie is the one any insertion order of that
\* set builds, and the drained sequence is the ordered set of allowed paths.
C14_DeclaredOrder ==
    pc \in {"iter", "panicked"} =>
        /\ \A i, j \in 1..Len(out) : i < j => Precedes(out[i], out[j])
        /\ trie = add_words(TrieNew, SetToSeq(inserted))
        /\ Exhausted => Range(out) = StopWords

\* C14 witness: two strings have been returned under a first constraint
\* entry that declares "b" before "a".
C14_Witness ==
    /\ pc = "iter"
    /\ Len(out) = 2
    /\ Constraints[1] = <<"b", "a">>
    /\ out[1][1] = "b"
    /\ out[2][1] = "a"

\* The enumerator was created at the root of a trie whose words all have the
\* length of the constraint list, and every constraint entry is one
\* character.
FullyForced ==
    /\ pc \in {"iter", "panicked"}
    /\ start_node = <<>>
    /\ \A k \in 1..Len(Constraints) : Len(Constraints[k]) = 1
    /\ \A w \in inserted : Len(w) = Len(Constraints)

\* The word W the constraint list spells.
ForcedWord == [k \in 1..Len(Constraints) |-> Constraints[k][1]]

\* C15: a fully forced enumeration returns W and nothing else when W is in
\* the vocabulary, and nothing at all when it is not; it ends without
\* failing.
C15_FullyForcedRow ==
    FullyForced =>
        /\ pc # "panicked"
        /\ \A i \in 1..Len(out) : out[i] = ForcedWord
        /\ Exhausted =>
              out = IF ForcedWord \in inserted THEN <<ForcedWord>> ELSE <<>>

----------------------------------------------------------------------------
(* The frames of an enumeration *)

RECURSIVE FramesAt(_, _)
\* The frames the iterator it holds, each with its depth below it: it
\* itself, the child iterators its Flatten has not started, and the one the
\* Flatten is draining with everything that one holds.
FramesAt(it, d) ==
    {[frame |-> it, depth |-> d]} \cup
    IF it.string_iter = None THEN {}
    ELSE LET fl == it.string_iter[1]
         IN  UNION {FramesAt(fl.iter[i], d + 1) : i \in 1..Len(fl.iter)}
             \cup IF fl.frontiter = None THEN {}
                  ELSE FramesAt(fl.frontiter[1], d + 1)

Frames == IF row_iter = None THEN {} ELSE FramesAt(row_iter[1], 0)

\* The child iterators no Flatten has started yet.
RECURSIVE PendingOf(_)
PendingOf(it) ==
    IF it.string_iter = None THEN {}
    ELSE LET fl == it.string_iter[1]
         IN  Range(fl.iter)
             \cup UNION {PendingOf(fl.iter[i]) : i \in 1..Len(fl.iter)}
             \cup IF fl.frontiter = None THEN {}
                  ELSE PendingOf(fl.frontiter[1])

\* C16: a frame on a terminal node never builds its child list; its next()
\* returns its own prefix character and marks it done, and returns
\* end-of-sequence from then on.  At the top level the one string returned
\* is the empty string, and no string returned passes through a terminal
\* node.
C16_TerminalStopsDescent ==
    pc \in {"iter", "panicked"} =>
        /\ \A x \in Frames :
              trie[x.frame.word_trie_node] =>
                 /\ x.frame.string_iter = None
                 /\ IterNext(trie, x.frame) =
                       IF x.frame.done
                       THEN Ret(x.frame, "none", <<>>)
                       ELSE Ret([x.frame EXCEPT !.done = TRUE], "some",
                                x.frame.prefix_char)
        /\ (trie[start_node] /\ last_ret # "new") =>
              /\ out = << <<>> >>
              /\ row_iter[1].done
              /\ pc = "iter"
        /\ \A i \in 1..Len(out) : \A k \in 0..(Len(out[i]) - 1) :
              ~IsTerminal(start_node \o SubSeq(out[i], 1, k))

\* C16 witness: a frame below the top level sits on a terminal node that has
\* a child the next constraint entry allows; it has returned its string and
\* is done.
C16_Witness ==
    /\ pc = "iter"
    /\ out # <<>>
    /\ \E x \in Frames :
          /\ x.depth >= 1
          /\ trie[x.frame.word_trie_node]
          /\ x.frame.done
          /\ x.frame.valid_next_row_chars # <<>>
          /\ \E c \in Range(x.frame.valid_next_row_chars[1]) :
                HasChild(trie, x.frame.word_trie_node, c)

\* C17: once next() has returned end-of-sequence, a later next() returns
\* end-of-sequence again and returns no string.
C17_ExhaustionPermanent ==
    [][(pc = "iter" /\ last_ret = "none") =>
          (pc' = "iter" /\ last_ret' = "none" /\ out' = out)]_vars

\* C17 witness: next() has been called again after it returned
\* end-of-sequence, on an enumerator that had returned a string.
C17_Witness ==
    /\ pc = "iter"
    /\ extra >= 1
    /\ last_ret = "none"
    /\ out # <<>>

\* C18: every frame sits on a node of the trie whose path from the start
\* node takes each character from the constraint entry of its position; the
\* frame carries the last character of the path and the entries of the
\* positions still to come.
C18_Pruning ==
    pc \in {"iter", "panicked"} =>
        \A x \in Frames :
            LET node == x.frame.word_trie_node
                n == Len(node) - Len(start_node)
            IN  /\ n = x.depth
                /\ n <= Len(Constraints)
                /\ node \in DOMAIN trie
                /\ SubSeq(node, 1, Len(start_node)) = start_node
                /\ \A k \in 1..n :
                      node[Len(start_node) + k] \in Range(Constraints[k])
                /\ x.frame.valid_next_row_chars =
                      SubSeq(Constraints, n + 1, Len(Constraints))
                /\ n >= 1 => x.frame.prefix_char = <<node[Len(node)]>>

\* C18 witness: a frame two characters below the start node exists while
\* the start node has a child the first constraint entry does not allow.
C18_Witness ==
    /\ pc = "iter"
    /\ \E x \in Frames : x.depth = 2
    /\ \E c \in Alphabet :
          /\ HasChild(trie, start_node, c)
          /\ c \notin Range(Constraints[1])

\* A frame is active when its child list is built and it is not exhausted.
Active(it) == it.string_iter # None /\ ~it.done

\* C19: a new enumerator has no child list; at most one frame of each depth
\* is active; the child iterators not yet started have no child list and
\* have returned nothing.
C19_Lazy ==
    pc \in {"iter", "panicked"} =>
        /\ last_ret = "new" => row_iter[1] = IterNew(start_node, <<>>, Constraints)
        /\ \A x, y \in Frames :
              (x.depth = y.depth /\ Active(x.frame) /\ Active(y.frame)) =>
                  x = y
        /\ \A it \in PendingOf(row_iter[1]) :
              it.string_iter = None /\ ~it.done

\* C19 witness: a string of two characters has been returned while a child
\* iterator of the top level is still to be started and the frame that
\* returned the string is active.
C19_Witness ==
    /\ pc = "iter"
    /\ Len(out) = 1
    /\ Len(out[1]) = 2
    /\ row_iter[1].string_iter # None
    /\ row_iter[1].string_iter[1].iter # <<>>
    /\ row_iter[1].string_iter[1].frontiter # None
    /\ Active(row_iter[1].string_iter[1].frontiter[1])

----------------------------------------------------------------------------
(* Properties of the trie *)

\* C6: a node is terminal exactly when its path is an inserted word; every
\* inserted word is walked from the root over one existing child per
\* character to a terminal node, and a string that was not inserted is
\* either no node or a node that is not terminal.
C6_TrieMembership ==
    /\ \A p \in DOMAIN trie : trie[p] <=> p \in inserted
    /\ \A w \in inserted :
          /\ \A k \in 0..Len(w) : SubSeq(w, 1, k) \in DOMAIN trie
          /\ trie[w]
    /\ \A s \in StringsUpTo(MaxWordLen) \ inserted :
          s \notin DOMAIN trie \/ ~trie[s]

\* C6 witness: a word was inserted whose proper prefix is a node but not a
\* word, next to another inserted word.
C6_Witness ==
    /\ Cardinality(inserted) = 2
    /\ \E w \in inserted :
          /\ Len(w) = 2
          /\ SubSeq(w, 1, 1) \in DOMAIN trie
          /\ SubSeq(w, 1, 1) \notin inserted

\* C7: every terminal node is at the depth of the configured dimension: a
\* word of another length is not inserted.
C7_RefusesMismatchedLength ==
    \A p \in DOMAIN trie : trie[p] => Len(p) = word_len

\* C13: adding a word a second time changes nothing: the node set and the
\* terminal flags after add_word(w); add_word(w) are those after one
\* add_word(w), for every trie and every word.
C13_AddWordIdempotent ==
    pc = "build" =>
        \A w \in StringsUpTo(MaxWordLen) :
            \E once \in {add_word(trie, w)} : add_word(once, w) = once

\* C13 witness: a trie that holds a word of two characters and to which
\* a first add_word of some other word adds a node.
C13_Witness ==
    /\ pc = "build"
    /\ \E w \in inserted : Len(w) = 2
    /\ \E w \in StringsUpTo(MaxWordLen) \ inserted :
          DOMAIN add_word(trie, w) # DOMAIN trie

----------------------------------------------------------------------------
(* Square Assembler: the row-by-row backtracking search of spec section    *)
(* 4.3, driving the enumerator above from the trie root.                   *)

MaxN == 2
MaxVocab == 3

\* The vocabularies of dimension n: lists of distinct words of length n.
RECURSIVE VocabsOfSize(_, _)
VocabsOfSize(n, k) ==
    IF k = 0 THEN {<<>>}
    ELSE {Append(v, w) : v \in VocabsOfSize(n, k - 1), w \in StringsOfLen(n)}

Vocabs(n) ==
    {v \in UNION {VocabsOfSize(n, k) : k \in 0..MaxVocab} :
        \A i, j \in 1..Len(v) : i # j => v[i] # v[j]}

\* Step 1: position j of row i is forced to the character row j has at
\* position i when row j is placed, and is free otherwise.
RowConstraints(sq, n) ==
    [j \in 1..n |-> IF j <= Len(sq) THEN <<sq[j][Len(sq) + 1]>>
                    ELSE AlphabetSeq]

Pop(s) == SubSeq(s, 1, Len(s) - 1)

SqInit ==
    /\ pc = "sq_build"
    /\ trie = TrieNew
    /\ inserted = {}
    /\ word_len \in 1..MaxN
    /\ row_iter = None
    /\ start_node = <<>>
    /\ out = <<>>
    /\ last_ret = "new"
    /\ extra = 0
    /\ working_words \in Vocabs(word_len)
    /\ square = <<>>
    /\ row_iters = <<>>
    /\ squares = <<>>
    /\ freq_csv_file = <<>>
    /\ scrabble_words_file = <<>>
    /\ top_n = 0
    /\ start_idx = 0

\* build_trie(words)
SqBuild ==
    /\ pc = "sq_build"
    /\ pc' = "sq_search"
    /\ trie' = add_words(trie, working_words)
    /\ inserted' = Range(working_words)
    /\ UNCHANGED <<word_len, enumVars, squareVars, mainVars>>

\* Steps 1 and 2: the enumerator of the next row is constructed.
SqOpenRow ==
    /\ pc = "sq_search"
    /\ Len(row_iters) = Len(square)
    /\ Len(square) < word_len
    /\ row_iters' =
          Append(row_iters,
                 IterNew(<<>>, <<>>, RowConstraints(square, word_len)))
    /\ UNCHANGED <<pc, trie, inserted, word_len, enumVars,
                   working_words, square, squares, mainVars>>

\* Step 3: the square is complete; it is emitted and its last row is popped
\* to resume the search.
SqEmit ==
    /\ pc = "sq_search"
    /\ Len(square) = word_len
    /\ Len(row_iters) = Len(square)
    /\ squares' = Append(squares, square)
    /\ square' = Pop(square)
    /\ UNCHANGED <<pc, trie, inserted, word_len, enumVars,
                   working_words, row_iters, mainVars>>

\* Steps 2 and 4: the enumerator of the row being filled is asked for its
\* next candidate; the candidate is pushed, or the row above is popped when
\* there is none.
SqAdvance ==
    /\ pc = "sq_search"
    /\ Len(row_iters) = Len(square) + 1
    /\ \E r \in {IterNext(trie, row_iters[Len(row_iters)])} :
           CASE r.kind = "some" ->
                  /\ row_iters' = [row_iters EXCEPT ![Len(row_iters)] = r.self]
                  /\ square' = Append(square, r.val)
                  /\ pc' = pc
             [] r.kind = "panic" ->
                  /\ pc' = "panicked"
                  /\ UNCHANGED <<row_iters, square>>
             [] OTHER ->
                  /\ row_iters' = Pop(row_iters)
                  /\ square' = Pop(square)
                  /\ pc' = IF Len(row_iters) = 1 THEN "sq_done" ELSE pc
    /\ UNCHANGED <<trie, inserted, word_len, enumVars, working_words,
                   squares, mainVars>>

SqNext ==
    \/ SqBuild
    \/ SqOpenRow
    \/ SqEmit
    \/ SqAdvance

SpecSquare == SqInit /\ [][SqNext]_vars

\* The search is a sequential program: it takes its next step whenever it has
\* one.
FairSpecSquare == SpecSquare /\ WF_vars(SqNext)

\* C3: every emitted square has N rows of N characters, equals its
\* transpose, and has only rows that are words of the vocabulary.
C3_SquareValid ==
    \A s \in 1..Len(squares) :
        LET sq == squares[s]
        IN  /\ Len(sq) = word_len
            /\ \A i \in 1..word_len :
                  /\ sq[i] \in Range(working_words)
                  /\ Len(sq[i]) = word_len
            /\ \A i, j \in 1..word_len : sq[i][j] = sq[j][i]

\* C3 witness: a square of two rows has been emitted from a vocabulary that
\* also holds a word that fits in no square with its first row.
C3_Witness ==
    /\ word_len = 2
    /\ \E s \in 1..Len(squares) :
          \E w \in Range(working_words) : w[1] # squares[s][1][2]

\* C10: the search ends: the row-0 enumerator is exhausted and the partial
\* square is empty.
C10_SearchTerminates ==
    <>(pc = "sq_done" /\ square = <<>> /\ row_iters = <<>>)

\* C10 witness: the search has ended after it emitted a square and after it
\* backtracked from a dead end.
C10_Witness ==
    /\ pc = "sq_done"
    /\ squares # <<>>
    /\ \E w \in Range(working_words) :
          \A s \in 1..Len(squares) : squares[s][1] # w

\* The sequences of n elements of S.
RECURSIVE SeqsOf(_, _)
SeqsOf(S, n) ==
    IF n = 0 THEN {<<>>}
    ELSE {Append(q, x) : q \in SeqsOf(S, n - 1), x \in S}

\* The ordered sequences of N vocabulary rows that equal their transpose.
SymmetricSquares ==
    {sq \in SeqsOf(Range(working_words), word_len) :
        \A i, j \in 1..word_len : sq[i][j] = sq[j][i]}

\* C11: when the search has ended, every symmetric sequence of N vocabulary
\* rows has been emitted exactly once, row order being significant, and
\* nothing else has been emitted.
C11_AllSquaresOnce ==
    pc = "sq_done" =>
        /\ \A sq \in SymmetricSquares : Count(sq, squares) = 1
        /\ \A s \in 1..Len(squares) : squares[s] \in SymmetricSquares

\* C11 witness: the search over a vocabulary holding "ab" and "ba" has ended
\* and emitted both ["ab","ba"] and ["ba","ab"].
C11_Witness ==
    /\ pc = "sq_done"
    /\ word_len = 2
    /\ {<<"a", "b">>, <<"b", "a">>} \subseteq Range(working_words)
    /\ Count(<< <<"a", "b">>, <<"b", "a">> >>, squares) = 1
    /\ Count(<< <<"b", "a">>, <<"a", "b">> >>, squares) = 1

----------------------------------------------------------------------------
(* get_working_words *)

\* The slices &working_words[0..10] and &working_words[len-10..].
PreviewLen == 10

\* char::to_lowercase on the characters of the model.
LowerChar(c) ==
    CASE c = "A" -> "a"
      [] c = "B" -> "b"
      [] OTHER -> c

to_lowercase(s) == [i \in 1..Len(s) |-> LowerChar(s[i])]

RECURSIVE trim_start(_), trim_end(_)
trim_start(s) ==
    IF s # <<>> /\ Head(s) = " " THEN trim_start(Tail(s)) ELSE s

trim_end(s) ==
    IF s # <<>> /\ s[Len(s)] = " "
    THEN trim_end(SubSeq(s, 1, Len(s) - 1)) ELSE s

trim(s) == trim_end(trim_start(s))

\* s.split_once(','): the text before and after the first comma, or None.
split_once(s) ==
    LET commas == {i \in 1..Len(s) : s[i] = ","}
    IN  IF commas = {} THEN None
        ELSE LET i == CHOOSE k \in commas : \A m \in commas : k <= m
             IN  Some(<<SubSeq(s, 1, i - 1), SubSeq(s, i + 1, Len(s))>>)

\* The first loop: the canonical dictionary words of the wanted length.
scrabble_set(lines, wlen) ==
    {w \in {to_lowercase(trim(lines[i])) : i \in 1..Len(lines)} :
        Len(w) = wlen}

\* The second loop, from the lines still to read and the words picked so
\* far: a line without a comma panics in unwrap(); the loop breaks when the
\* word it has just pushed makes top_n words.
RECURSIVE freq_loop(_, _, _, _)
freq_loop(lines, set, n, working) ==
    IF lines = <<>> THEN [kind |-> "ok", words |-> working]
    ELSE LET cols == split_once(Head(lines))
         IN  IF cols = None THEN [kind |-> "panic", words |-> working]
             ELSE LET word == to_lowercase(trim(cols[1][1]))
                  IN  IF word \in set
                      THEN IF Len(working) + 1 = n
                           THEN [kind |-> "ok",
                                 words |-> Append(working, word)]
                           ELSE freq_loop(Tail(lines), set, n,
                                          Append(working, word))
                      ELSE freq_loop(Tail(lines), set, n, working)

\* Both preview slices are in range only when there are PreviewLen words.
PreviewPanics(working) == Len(working) < PreviewLen

get_working_words(freq, scrabble, n, wlen) ==
    LET picked == freq_loop(freq, scrabble_set(scrabble, wlen), n, <<>>)
    IN  IF picked.kind = "ok" /\ PreviewPanics(picked.words)
        THEN [kind |-> "panic", words |-> picked.words]
        ELSE picked

----------------------------------------------------------------------------
(* main: get_working_words, Trie::add_words, gen_first_row *)

\* The word of n characters whose i-th character is "b" when bit i of k is
\* set.
RECURSIVE Bin(_, _)
Bin(n, k) ==
    IF n = 0 THEN <<>>
    ELSE <<AlphabetSeq[(k % 2) + 1]>> \o Bin(n - 1, k \div 2)

CsvLine(word) == word \o <<",", "1">>

\* The dictionary files: eleven words of four characters and one of three,
\* the same file without its first word, its first nine words, the file
\* with its first line in upper case between blanks, and the empty file.
DictWords == [k \in 1..11 |-> Bin(4, k - 1)] \o <<Bin(3, 1)>>

ScrabbleFiles ==
    {<<>>, DictWords, Tail(DictWords), SubSeq(DictWords, 1, 9),
     << <<" ", "A", "A", "A", "A", " ">> >> \o Tail(DictWords)}

\* The frequency files: the prefixes of a ranking that begins with a word in
\* upper case and a word that is in no dictionary.
FreqLines ==
    << <<"A", "a", "a", "a", " ", ",", "1">>, CsvLine(Bin(4, 15)) >>
    \o [k \in 1..11 |-> CsvLine(DictWords[k + 1])]

FreqFiles == {SubSeq(FreqLines, 1, n) : n \in 0..Len(FreqLines)}

TopNs == {0, 1, 10, 11}
WordLens == {3, 4}

MainInit ==
    /\ pc = "main"
    /\ trie = TrieNew
    /\ inserted = {}
    /\ word_len \in WordLens
    /\ row_iter = None
    /\ start_node = <<>>
    /\ out = <<>>
    /\ last_ret = "new"
    /\ extra = 0
    /\ working_words = <<>>
    /\ square = <<>>
    /\ row_iters = <<>>
    /\ squares = <<>>
    /\ freq_csv_file \in FreqFiles
    /\ scrabble_words_file \in ScrabbleFiles
    /\ top_n \in TopNs
    /\ start_idx = 0

\* let working_words = get_working_words(...)
GetWorkingWords ==
    /\ pc = "main"
    /\ \E r \in {get_working_words(freq_csv_file, scrabble_words_file,
                                   top_n, word_len)} :
          /\ working_words' = r.words
          /\ pc' = IF r.kind = "panic" THEN "panicked" ELSE "add_words"
    /\ UNCHANGED <<trie, inserted, word_len, enumVars, square,
                   row_iters, squares, mainVars>>

\* trie.add_words(&working_words)
AddWords ==
    /\ pc = "add_words"
    /\ pc' = "gen"
    /\ trie' = add_words(trie, working_words)
    /\ inserted' = Range(working_words)
    /\ start_idx' = 1
    /\ UNCHANGED <<word_len, enumVars, squareVars, freq_csv_file,
                   scrabble_words_file, top_n>>

\* gen_first_row: the constraint list that forces every position to the
\* character of start_word.
ForcedChars(start_word) == [i \in 1..Len(start_word) |-> <<start_word[i]>>]

\* gen_first_row: the body of the outer loop up to the creation of row_iter.
GenStartWord ==
    /\ pc = "gen"
    /\ row_iter = None
    /\ start_idx <= Len(working_words)
    /\ row_iter' = Some(IterNew(<<>>, <<>>,
                                ForcedChars(working_words[start_idx])))
    /\ out' = <<>>
    /\ last_ret' = "new"
    /\ UNCHANGED <<pc, trie, inserted, word_len, start_node, extra,
                   squareVars, mainVars>>

\* gen_first_row: one turn of `for w in row_iter`.
GenNext ==
    /\ pc = "gen"
    /\ row_iter # None
    /\ \E r \in {IterNext(trie, row_iter[1])} :
          /\ last_ret' = r.kind
          /\ out' = IF r.kind = "some" THEN Append(out, r.val) ELSE out
          /\ row_iter' = IF r.kind = "none" THEN None ELSE Some(r.self)
          /\ start_idx' = IF r.kind = "none" THEN start_idx + 1 ELSE start_idx
          /\ pc' = IF r.kind = "panic" THEN "panicked" ELSE pc
    /\ UNCHANGED <<trie, inserted, word_len, start_node, extra,
                   squareVars, freq_csv_file, scrabble_words_file, top_n>>

\* gen_first_row and main return.
GenDone ==
    /\ pc = "gen"
    /\ row_iter = None
    /\ start_idx > Len(working_words)
    /\ pc' = "exit"
    /\ UNCHANGED <<trie, inserted, word_len, enumVars, squareVars,
                   mainVars>>

MainNext ==
    \/ GetWorkingWords
    \/ AddWords
    \/ GenStartWord
    \/ GenNext
    \/ GenDone

SpecMain == MainInit /\ [][MainNext]_vars

\* The words of the frequency file, made canonical, that have the configured
\* length and are in the dictionary.
FilteredVocabulary ==
    {w \in {to_lowercase(trim(split_once(freq_csv_file[i])[1][1])) :
               i \in 1..Len(freq_csv_file)} :
        /\ Len(w) = word_len
        /\ \E j \in 1..Len(scrabble_words_file) :
              to_lowercase(trim(scrabble_words_file[j])) = w}

\* C8: with an empty filtered vocabulary the run does not abort.
C8_EmptyVocabularyNoAbort ==
    FilteredVocabulary = {} => pc # "panicked"

\* The first column of the frequency file, made canonical, in file order.
FreqWords ==
    [i \in 1..Len(freq_csv_file) |->
        to_lowercase(trim(split_once(freq_csv_file[i])[1][1]))]

\* The dictionary words, made canonical.
DictWordSet ==
    {to_lowercase(trim(scrabble_words_file[j])) :
        j \in 1..Len(scrabble_words_file)}

\* a is b with some elements left out.
RECURSIVE IsSubseq(_, _)
IsSubseq(a, b) ==
    IF a = <<>> THEN TRUE
    ELSE IF b = <<>> THEN FALSE
    ELSE IF Head(a) = Head(b) THEN IsSubseq(Tail(a), Tail(b))
    ELSE IsSubseq(a, Tail(b))

\* get_working_words has returned.
Returned == pc \in {"add_words", "gen", "exit"}

\* C12: the returned list holds only words of both inputs that have length
\* word_len, in the order of the frequency list, and at most top_n of them.
C12_VocabularyFilter ==
    Returned =>
        /\ \A i \in 1..Len(working_words) :
              /\ working_words[i] \in Range(FreqWords)
              /\ working_words[i] \in DictWordSet
              /\ Len(working_words[i]) = word_len
        /\ IsSubseq(working_words, FreqWords)
        /\ Len(working_words) <= top_n

====
